---- MODULE Spec2Model ----
(***************************************************************************)
(* State-machine model of blueprints/create_pptx.py: the two HTTP routes   *)
(* auto_ppt and ping, the text-generation endpoint they call, the wall     *)
(* clock auto_ppt stamps its file with, and the blob container it uploads  *)
(* to.  Every request is one sequential run of its handler; the handlers   *)
(* of different requests interleave at the points where the code blocks    *)
(* on the network or reads the clock.                                      *)
(***************************************************************************)
EXTENDS Integers, Sequences, FiniteSets, TLC

\* ------------------------------------------------------------------ bounds
MaxFaults == 2        \* transient faults the endpoint gives before its answer
MaxSlides == 2        \* entries of a generated outline
MaxBullets == 2       \* bullets of one entry
MaxPingLen == 2       \* tokens of a ping reply
MaxClock == 3         \* clock ticks the model follows while nothing bounds a wait
TicksPerSec == 2      \* clock ticks in one second (the stamp keeps whole seconds)

\* ------------------------------------------------------- program constants
PingTimeoutSec == 15  \* timeout=15 of ping's call
BulletFontPt == 18    \* Pt(18)

container_name == "pptstorage"
PptxMime == "application/vnd.openxmlformats-officedocument.presentationml.presentation"
JsonMime == "application/json"

\* The requests followed: one alone, or the two as a concurrent pair.
Reqs == {1, 2}

\* ------------------------------------------------------------ the endpoint
\* What the generation endpoint does to the calls of one request: `faults`
\* transient faults, then `then` for every later call.
TransientKinds == {"APITimeoutError", "RateLimitError", "socket.timeout"}
FatalKinds == {"AuthenticationError"}
Endpoints == [faults : 0..MaxFaults, then : {"ok", "hang", "error", "transient"}]

EndpointOutcome(e, call) ==
    IF call <= e.faults THEN "transient" ELSE e.then

\* ------------------------------------------------------------ JSON replies
Titles == {"T1", "T2"}
AllBullets == <<"b1", "b2", "b3", "b4">>
BulletLists == {SubSeq(AllBullets, 1, n) : n \in 0..MaxBullets}
                 \cup {<<AllBullets[2], AllBullets[1]>>}

Entries ==
    {[title |-> t, bullets |-> b] : t \in Titles, b \in BulletLists}
      \cup {[title |-> t] : t \in Titles}
      \cup {[bullets |-> b] : b \in BulletLists}

RECURSIVE SeqsUpTo(_, _)
SeqsUpTo(S, n) ==
    IF n = 0 THEN {<<>>}
    ELSE LET shorter == SeqsUpTo(S, n - 1)
         IN  shorter \cup {Append(s, x) : s \in {t \in shorter : Len(t) = n - 1}, x \in S}

Outlines == SeqsUpTo(Entries, MaxSlides)

\* message.content of a reply: None, text that is no JSON, a JSON document
\* that is no array, or a JSON array.
AutoPptContents ==
    {[kind |-> "none",   items |-> <<>>],
     [kind |-> "text",   items |-> <<>>],
     [kind |-> "scalar", items |-> <<>>]}
      \cup {[kind |-> "array", items |-> o] : o \in Outlines}

\* json.loads: raises on None and on text that is no JSON, else the value.
json_loads(content) ==
    CASE content.kind = "none" -> [raised |-> "TypeError", value |-> content]
      [] content.kind = "text" -> [raised |-> "JSONDecodeError", value |-> content]
      [] OTHER                 -> [raised |-> "", value |-> content]

\* ------------------------------------------------------------------- state
VARIABLES
    now,              \* the wall clock, in ticks
    containerExists,  \* whether the container pptstorage exists
    store,            \* the container's blobs: path -> [data, content_type, by]
    endpoint,         \* per request: what the endpoint does to its calls
    pc,               \* per request: the handler's position
    calls,            \* per request: generation calls issued so far
    callStart,        \* per request: clock at the last call
    timeout,          \* per request: {} or {seconds}, the call's timeout argument
    got,              \* per request: what the last call produced
    exc,              \* per request: the exception that ended the handler ("" if none)
    slides,           \* per request: the parsed outline
    idx,              \* per request: the loop's position in slides
    prs,              \* per request: the deck, a sequence of slides
    ts,               \* per request: clock reading and the stamp made of it
    buf,              \* per request: the serialized deck
    ops,              \* per request: the storage calls made, with their results
    upload_status,    \* per request: the X-Upload-Status text
    resp              \* per request: the HTTP response returned

vars == <<now, containerExists, store, endpoint, pc, calls, callStart, timeout,
          got, exc, slides, idx, prs, ts, buf, ops, upload_status, resp>>

NoGot == [kind |-> "none"]
NoSlides == [kind |-> "unset", items |-> <<>>]
NoTs == [set |-> FALSE, clock |-> 0, stamp |-> 0]
NoBuf == [set |-> FALSE, pptx |-> <<>>]
NoResp == [status_code |-> 0]

\* The state after the module is loaded and before any request: `active` are
\* the requests that will arrive, `eps` what the endpoint may do to each.
QuietEndpoint == [faults |-> 0, then |-> "ok"]

InitFor(active, eps) ==
    /\ now = 0
    /\ containerExists \in BOOLEAN
    /\ store = <<>>
    /\ endpoint \in {e \in [Reqs -> eps \cup {QuietEndpoint}] :
                        \A r \in Reqs \ active : e[r] = QuietEndpoint}
    /\ pc = [r \in Reqs |-> "idle"]
    /\ calls = [r \in Reqs |-> 0]
    /\ callStart = [r \in Reqs |-> 0]
    /\ timeout = [r \in Reqs |-> {}]
    /\ got = [r \in Reqs |-> NoGot]
    /\ exc = [r \in Reqs |-> ""]
    /\ slides = [r \in Reqs |-> NoSlides]
    /\ idx = [r \in Reqs |-> 0]
    /\ prs = [r \in Reqs |-> <<>>]
    /\ ts = [r \in Reqs |-> NoTs]
    /\ buf = [r \in Reqs |-> NoBuf]
    /\ ops = [r \in Reqs |-> <<>>]
    /\ upload_status = [r \in Reqs |-> <<>>]
    /\ resp = [r \in Reqs |-> NoResp]

\* ---------------------------------------------------------- pure helpers
\* Variant: a stamp that keeps the fraction of the second.
strftime_fine(clock) == clock

\* strftime("%Y%m%d-%H%M%S"): the clock cut to whole seconds.
strftime(clock) == clock \div TicksPerSec

\* f"{ts}_auto_docs.pptx"
file_name(stamp) == <<stamp, "_auto_docs.pptx">>

\* f"generated/{file_name}"
blob_path(fname) == <<"generated/", fname>>

\* f"https://{account}.blob.core.windows.net/{container_name}/{blob_path}"
blob_url(path) == <<"https://", "account", ".blob.core.windows.net/", container_name, "/", path>>

\* A paragraph of a text frame; size 0 is "no size set".
EmptyPara == [text |-> "", size |-> 0]

\* prs.slides.add_slide(layout): a slide whose title is empty and whose
\* placeholder 1 holds the one empty paragraph every text frame starts with.
add_slide(layout) == [layout |-> layout, title |-> "", body |-> <<EmptyPara>>]

\* TextFrame.clear(): removes every paragraph but the first and empties that one.
tf_clear(paras) == <<[Head(paras) EXCEPT !.text = ""]>>

\* The loop over slide["bullets"]: add_paragraph() appends a new paragraph
\* after the existing ones; its text and size are then set.
add_bullets(paras, bullets) ==
    paras \o [i \in 1..Len(bullets) |-> [text |-> bullets[i], size |-> BulletFontPt]]

\* placeholder.text = s: the frame becomes one paragraph holding s.
set_text(s) == <<[text |-> s, size |-> 0]>>

\* prs.save(buf); buf.getvalue(): the bytes of the deck as it is at that moment.
save(deck) == [set |-> TRUE, pptx |-> deck]

HasKey(entry, k) == k \in DOMAIN entry

\* What slides[0]["title"] raises, "" when it raises nothing.
CoverTitleError(sl) ==
    CASE sl.kind # "array"            -> "TypeError"
      [] Len(sl.items) = 0            -> "IndexError"
      [] ~HasKey(sl.items[1], "title") -> "KeyError"
      [] OTHER                        -> ""

\* ------------------------------------------------------------- the clock
Waiting(r) == pc[r] \in {"gen_wait", "ping_wait"}

Deadline(r) == callStart[r] + (CHOOSE t \in timeout[r] : TRUE) * TicksPerSec

TimedOut(r) == timeout[r] # {} /\ now >= Deadline(r)

\* Time passes while a request waits for the endpoint or is about to read the
\* clock.  A wait with a timeout is followed up to its deadline, a wait
\* without one up to MaxClock.
Tick ==
    /\ \E r \in Reqs :
          \/ pc[r] = "build" /\ now < MaxClock
          \/ Waiting(r) /\ timeout[r] = {} /\ now < MaxClock
          \/ Waiting(r) /\ timeout[r] # {} /\ now < Deadline(r)
    /\ now' = now + 1
    /\ UNCHANGED <<containerExists, store, endpoint, pc, calls, callStart, timeout,
                   got, exc, slides, idx, prs, ts, buf, ops, upload_status, resp>>

\* ----------------------------------------------------------------- auto_ppt
\* Variant: a catch-all around the handler that answers with whatever was built.
Propagate_partial(r, e) ==
    /\ pc' = [pc EXCEPT ![r] = "respond"]
    /\ exc' = [exc EXCEPT ![r] = e]

\* An exception that leaves the handler: the framework answers, the handler
\* returns nothing.
Propagate(r, e) ==
    /\ pc' = [pc EXCEPT ![r] = "failed"]
    /\ exc' = [exc EXCEPT ![r] = e]

\* client.chat.completions.create(...) of auto_ppt is issued: no timeout argument.
AutoPptCall(r) ==
    /\ pc[r] = "idle"
    /\ pc' = [pc EXCEPT ![r] = "gen_wait"]
    /\ calls' = [calls EXCEPT ![r] = @ + 1]
    /\ callStart' = [callStart EXCEPT ![r] = now]
    /\ timeout' = [timeout EXCEPT ![r] = {}]
    /\ UNCHANGED <<now, containerExists, store, endpoint, got, exc, slides, idx,
                   prs, ts, buf, ops, upload_status, resp>>

\* The call raises: nothing in auto_ppt catches it.
AutoPptGenRaise(r) ==
    /\ pc[r] = "gen_wait"
    /\ ~TimedOut(r)
    /\ EndpointOutcome(endpoint[r], calls[r]) \in {"transient", "error"}
    /\ \E e \in IF EndpointOutcome(endpoint[r], calls[r]) = "transient"
                 THEN TransientKinds ELSE FatalKinds :
          /\ got' = [got EXCEPT ![r] = [kind |-> "raise", exc |-> e]]
          /\ Propagate(r, e)
    /\ UNCHANGED <<now, containerExists, store, endpoint, calls, callStart, timeout,
                   slides, idx, prs, ts, buf, ops, upload_status, resp>>

\* Variant: a reply that does not parse is asked for again.
OnParseError_retry(r, e) ==
    /\ pc' = [pc EXCEPT ![r] = "idle"]
    /\ UNCHANGED exc

\* json.loads raises: nothing in auto_ppt catches it.
OnParseError(r, e) == Propagate(r, e)

\* The call returns a reply; json.loads parses its content.
AutoPptGenReturn(r, contents) ==
    /\ pc[r] = "gen_wait"
    /\ ~TimedOut(r)
    /\ EndpointOutcome(endpoint[r], calls[r]) = "ok"
    /\ \E content \in contents :
          LET j == json_loads(content)
          IN  /\ got' = [got EXCEPT ![r] = [kind |-> "reply", content |-> content]]
              /\ IF j.raised # ""
                 THEN /\ OnParseError(r, j.raised)
                      /\ UNCHANGED slides
                 ELSE /\ slides' = [slides EXCEPT ![r] = j.value]
                      /\ pc' = [pc EXCEPT ![r] = "build"]
                      /\ UNCHANGED exc
    /\ UNCHANGED <<now, containerExists, store, endpoint, calls, callStart, timeout,
                   idx, prs, ts, buf, ops, upload_status, resp>>

\* Presentation(), the stamp, the file name and the cover slide.
BuildCover(r) ==
    /\ pc[r] = "build"
    /\ ts' = [ts EXCEPT ![r] = [set |-> TRUE, clock |-> now, stamp |-> strftime(now)]]
    /\ LET cover == add_slide(0)
           e == CoverTitleError(slides[r])
       IN  IF e # ""
           THEN /\ prs' = [prs EXCEPT ![r] = <<cover>>]
                /\ Propagate(r, e)
                /\ UNCHANGED idx
           ELSE /\ prs' = [prs EXCEPT ![r] =
                            <<[cover EXCEPT !.title = slides[r].items[1].title,
                                            !.body = set_text(<<"Update Date - ", strftime(now)>>)]>>]
                /\ idx' = [idx EXCEPT ![r] = 2]
                /\ pc' = [pc EXCEPT ![r] = "loop"]
                /\ UNCHANGED exc
    /\ UNCHANGED <<now, containerExists, store, endpoint, calls, callStart, timeout,
                   got, slides, buf, ops, upload_status, resp>>

\* Variant: `except KeyError: continue` inside the loop.
OnEntryError_skip(r, e) ==
    /\ idx' = [idx EXCEPT ![r] = @ + 1]
    /\ UNCHANGED <<pc, exc>>

\* slide["title"] or slide["bullets"] raises KeyError inside the loop: nothing
\* catches it, the loop ends there.
OnEntryError(r, e) ==
    /\ Propagate(r, e)
    /\ UNCHANGED idx

\* One pass of `for slide in slides[1:]`.
AddContentSlide(r) ==
    /\ pc[r] = "loop"
    /\ idx[r] <= Len(slides[r].items)
    /\ LET slide == slides[r].items[idx[r]]
           s0 == add_slide(1)
           s1 == [s0 EXCEPT !.title = slide.title]
           s2 == [s1 EXCEPT !.body = tf_clear(s1.body)]
           s3 == [s2 EXCEPT !.body = add_bullets(s2.body, slide.bullets)]
       IN  CASE ~HasKey(slide, "title") ->
                  /\ prs' = [prs EXCEPT ![r] = Append(@, s0)]
                  /\ OnEntryError(r, "KeyError")
             [] HasKey(slide, "title") /\ ~HasKey(slide, "bullets") ->
                  /\ prs' = [prs EXCEPT ![r] = Append(@, s2)]
                  /\ OnEntryError(r, "KeyError")
             [] OTHER ->
                  /\ prs' = [prs EXCEPT ![r] = Append(@, s3)]
                  /\ idx' = [idx EXCEPT ![r] = @ + 1]
                  /\ UNCHANGED <<pc, exc>>
    /\ UNCHANGED <<now, containerExists, store, endpoint, calls, callStart, timeout,
                   got, slides, ts, buf, ops, upload_status, resp>>

\* buf = io.BytesIO(); prs.save(buf); buf.seek(0)
Save(r) ==
    /\ pc[r] = "loop"
    /\ idx[r] > Len(slides[r].items)
    /\ buf' = [buf EXCEPT ![r] = save(prs[r])]
    /\ pc' = [pc EXCEPT ![r] = "st_client"]
    /\ UNCHANGED <<now, containerExists, store, endpoint, calls, callStart, timeout,
                   got, exc, slides, idx, prs, ts, ops, upload_status, resp>>

\* ------------------------------------------------------ auto_ppt: storage
StorageFaults == {"ServiceRequestError"}

\* One storage call of request r and what it gave.
Logged(r, entry) == ops' = [ops EXCEPT ![r] = Append(@, entry)]

\* Variant: the storage steps outside the try block.
ExceptStorage_propagate(r, e) ==
    /\ Propagate(r, e)
    /\ UNCHANGED upload_status

\* except Exception as ex: upload_status = f"Blob upload failed: {ex}"
ExceptStorage(r, e) ==
    /\ upload_status' = [upload_status EXCEPT ![r] = <<"Blob upload failed: ", e>>]
    /\ pc' = [pc EXCEPT ![r] = "respond"]
    /\ UNCHANGED exc

\* BlobServiceClient.from_connection_string(os.environ["BLOB_CONN"]) and
\* get_container_client: the variable may be missing or malformed.
StClient(r) ==
    /\ pc[r] = "st_client"
    /\ \E e \in {"", "KeyError", "ValueError"} :
          /\ Logged(r, [op |-> "client", result |-> e])
          /\ IF e # ""
             THEN ExceptStorage(r, e)
             ELSE /\ pc' = [pc EXCEPT ![r] = "st_exists"]
                  /\ UNCHANGED <<exc, upload_status>>
    /\ UNCHANGED <<now, containerExists, store, endpoint, calls, callStart, timeout,
                   got, slides, idx, prs, ts, buf, resp>>

\* Variant: the test of cc.exists() inverted.
AfterExists_inverted(exists) == IF exists THEN "st_create" ELSE "st_upload"

\* Where `if not cc.exists(): cc.create_container()` goes on a given answer.
AfterExists(exists) == IF exists THEN "st_upload" ELSE "st_create"

\* cc.exists()
StExists(r) ==
    /\ pc[r] = "st_exists"
    /\ \E e \in {""} \cup StorageFaults :
          /\ Logged(r, [op |-> "exists", result |-> e, exists |-> containerExists])
          /\ IF e # ""
             THEN ExceptStorage(r, e)
             ELSE /\ pc' = [pc EXCEPT ![r] = AfterExists(containerExists)]
                  /\ UNCHANGED <<exc, upload_status>>
    /\ UNCHANGED <<now, containerExists, store, endpoint, calls, callStart, timeout,
                   got, slides, idx, prs, ts, buf, resp>>

\* cc.create_container(): fails when the container has appeared meanwhile.
StCreate(r) ==
    /\ pc[r] = "st_create"
    /\ \E e \in (IF containerExists THEN {"ResourceExistsError"} ELSE {""})
                  \cup StorageFaults :
          /\ Logged(r, [op |-> "create", result |-> e])
          /\ IF e # ""
             THEN /\ ExceptStorage(r, e)
                  /\ UNCHANGED containerExists
             ELSE /\ containerExists' = TRUE
                  /\ pc' = [pc EXCEPT ![r] = "st_upload"]
                  /\ UNCHANGED <<exc, upload_status>>
    /\ UNCHANGED <<now, store, endpoint, calls, callStart, timeout,
                   got, slides, idx, prs, ts, buf, resp>>

\* The container after upload_blob(name, data, overwrite=True, content_settings).
put_blob(blobs, name, blob) ==
    [p \in DOMAIN blobs \cup {name} |-> IF p = name THEN blob ELSE blobs[p]]

\* cc.upload_blob(...), then blob_url and the success text.
StUpload(r) ==
    /\ pc[r] = "st_upload"
    /\ LET name == blob_path(file_name(ts[r].stamp))
           data == buf[r]
       IN  \E e \in {""} \cup StorageFaults :
             /\ Logged(r, [op |-> "upload", result |-> e, name |-> name,
                           overwrite |-> TRUE, data |-> data])
             /\ IF e # ""
                THEN /\ ExceptStorage(r, e)
                     /\ UNCHANGED store
                ELSE /\ store' = put_blob(store, name,
                                   [data |-> data, content_type |-> PptxMime, by |-> r])
                     /\ upload_status' = [upload_status EXCEPT ![r] =
                                   <<"Uploaded to Blob Storage: ", blob_url(name)>>]
                     /\ pc' = [pc EXCEPT ![r] = "respond"]
                     /\ UNCHANGED exc
    /\ UNCHANGED <<now, containerExists, endpoint, calls, callStart, timeout,
                   got, slides, idx, prs, ts, buf, resp>>

\* return HttpResponse(body=buf.getvalue(), mimetype=..., headers=...):
\* no status_code, so the framework's default, 200.
Respond(r) ==
    /\ pc[r] = "respond"
    /\ resp' = [resp EXCEPT ![r] =
                  [status_code |-> 200, mimetype |-> PptxMime, body |-> buf[r],
                   headers |-> [ContentDisposition |-> file_name(ts[r].stamp),
                                XUploadStatus |-> upload_status[r]]]]
    /\ pc' = [pc EXCEPT ![r] = "responded"]
    /\ UNCHANGED <<now, containerExists, store, endpoint, calls, callStart, timeout,
                   got, exc, slides, idx, prs, ts, buf, ops, upload_status>>

\* ------------------------------------------------------------------- ping
PingTokens == {" ", "pong"}
PingContents ==
    {[kind |-> "none", text |-> <<>>]}
      \cup {[kind |-> "str", text |-> t] : t \in SeqsUpTo(PingTokens, MaxPingLen)}

\* str.strip(): the text without its leading and trailing whitespace.
RECURSIVE lstrip(_)
lstrip(t) == IF t # <<>> /\ Head(t) = " " THEN lstrip(Tail(t)) ELSE t

RECURSIVE rstrip(_)
rstrip(t) ==
    IF t # <<>> /\ t[Len(t)] = " " THEN rstrip(SubSeq(t, 1, Len(t) - 1)) ELSE t

strip(t) == rstrip(lstrip(t))

\* The two HttpResponse values ping builds.
PingSuccess(answer) ==
    [status_code |-> 200, mimetype |-> JsonMime,
     body |-> [status |-> "success", answer |-> answer]]

PingError(e) ==
    [status_code |-> 500, mimetype |-> JsonMime,
     body |-> [status |-> "error", detail |-> e, trace |-> <<"Traceback", e>>]]

\* Variant: no try block around ping's body.
ExceptPing_propagate(r, e) ==
    /\ Propagate(r, e)
    /\ UNCHANGED resp

\* except Exception as e: the 500 response.
ExceptPing(r, e) ==
    /\ resp' = [resp EXCEPT ![r] = PingError(e)]
    /\ pc' = [pc EXCEPT ![r] = "responded"]
    /\ UNCHANGED exc

\* client.chat.completions.create(..., timeout=15) of ping is issued.
PingCall(r) ==
    /\ pc[r] = "idle"
    /\ pc' = [pc EXCEPT ![r] = "ping_wait"]
    /\ calls' = [calls EXCEPT ![r] = @ + 1]
    /\ callStart' = [callStart EXCEPT ![r] = now]
    /\ timeout' = [timeout EXCEPT ![r] = {PingTimeoutSec}]
    /\ UNCHANGED <<now, containerExists, store, endpoint, got, exc, slides, idx,
                   prs, ts, buf, ops, upload_status, resp>>

\* The call raises before its deadline.
PingRaise(r) ==
    /\ pc[r] = "ping_wait"
    /\ ~TimedOut(r)
    /\ EndpointOutcome(endpoint[r], calls[r]) \in {"transient", "error"}
    /\ \E e \in IF EndpointOutcome(endpoint[r], calls[r]) = "transient"
                 THEN TransientKinds ELSE FatalKinds :
          /\ got' = [got EXCEPT ![r] = [kind |-> "raise", exc |-> e]]
          /\ ExceptPing(r, e)
    /\ UNCHANGED <<now, containerExists, store, endpoint, calls, callStart, timeout,
                   slides, idx, prs, ts, buf, ops, upload_status>>

\* The deadline passes with no answer: the client raises APITimeoutError.
PingTimeout(r) ==
    /\ pc[r] = "ping_wait"
    /\ TimedOut(r)
    /\ got' = [got EXCEPT ![r] = [kind |-> "raise", exc |-> "APITimeoutError"]]
    /\ ExceptPing(r, "APITimeoutError")
    /\ UNCHANGED <<now, containerExists, store, endpoint, calls, callStart, timeout,
                   slides, idx, prs, ts, buf, ops, upload_status>>

\* The call returns; the content is stripped (None has no strip) and sent back.
PingReturn(r) ==
    /\ pc[r] = "ping_wait"
    /\ ~TimedOut(r)
    /\ EndpointOutcome(endpoint[r], calls[r]) = "ok"
    /\ \E content \in PingContents :
          /\ got' = [got EXCEPT ![r] = [kind |-> "reply", content |-> content]]
          /\ IF content.kind = "none"
             THEN ExceptPing(r, "AttributeError")
             ELSE /\ resp' = [resp EXCEPT ![r] = PingSuccess(strip(content.text))]
                  /\ pc' = [pc EXCEPT ![r] = "responded"]
                  /\ UNCHANGED exc
    /\ UNCHANGED <<now, containerExists, store, endpoint, calls, callStart, timeout,
                   slides, idx, prs, ts, buf, ops, upload_status>>

\* --------------------------------------------------------- specifications
\* One auto_ppt request, every reply the endpoint can give.
Init == InitFor({1}, Endpoints)

Next ==
    \/ Tick
    \/ AutoPptCall(1)
    \/ AutoPptGenRaise(1)
    \/ AutoPptGenReturn(1, AutoPptContents)
    \/ BuildCover(1)
    \/ AddContentSlide(1)
    \/ Save(1)
    \/ StClient(1)
    \/ StExists(1)
    \/ StCreate(1)
    \/ StUpload(1)
    \/ Respond(1)

Spec == Init /\ [][Next]_vars

\* One ping request.
NextPing ==
    \/ Tick
    \/ PingCall(1)
    \/ PingRaise(1)
    \/ PingTimeout(1)
    \/ PingReturn(1)

SpecPing == Init /\ [][NextPing]_vars

\* Concurrent auto_ppt requests; the endpoint answers each with one of two
\* well-formed outlines or refuses.
ConcContents ==
    {[kind |-> "array", items |-> <<[title |-> "T1", bullets |-> <<>>]>>],
     [kind |-> "array", items |-> <<[title |-> "T2", bullets |-> <<>>],
                                    [title |-> "T1", bullets |-> <<"b1">>]>>]}

ConcEndpoints == {e \in Endpoints : e.faults = 0 /\ e.then \in {"ok", "error"}}

InitConc == InitFor(Reqs, ConcEndpoints)

NextConc ==
    \/ Tick
    \/ \E r \in Reqs :
          \/ AutoPptCall(r)
          \/ AutoPptGenRaise(r)
          \/ AutoPptGenReturn(r, ConcContents)
          \/ BuildCover(r)
          \/ AddContentSlide(r)
          \/ Save(r)
          \/ StClient(r)
          \/ StExists(r)
          \/ StCreate(r)
          \/ StUpload(r)
          \/ Respond(r)

SpecConc == InitConc /\ [][NextConc]_vars

\* -------------------------------------------------------------- properties
PostAssembly == {"st_client", "st_exists", "st_create", "st_upload", "respond", "responded"}

Texts(paras) == [j \in 1..Len(paras) |-> paras[j].text]

StorageFailed(r) == \E i \in 1..Len(ops[r]) : ops[r][i].result # ""

WroteBlob(r) == \E p \in DOMAIN store : store[p].by = r

\* C1: when generation and assembly succeeded and a storage step (client
\* construction, existence check, container creation, upload) fails, the
\* failure never leaves the handler: the request goes on to a 200 response
\* whose body is the whole assembled deck and whose X-Upload-Status is the
\* failure description.
C1_UploadFailureIsolated ==
    \A r \in Reqs :
        StorageFailed(r) =>
            LET last == ops[r][Len(ops[r])]
                failure == <<"Blob upload failed: ", last.result>>
            IN  /\ last.result # ""
                /\ pc[r] \in {"respond", "responded"}
                /\ exc[r] = ""
                /\ upload_status[r] = failure
                /\ pc[r] = "responded" =>
                      /\ resp[r].status_code = 200
                      /\ resp[r].body.set
                      /\ resp[r].body.pptx = prs[r]
                      /\ Len(prs[r]) = Len(slides[r].items)
                      /\ resp[r].headers.XUploadStatus = failure

C1_Witness ==
    \E r \in Reqs :
        /\ pc[r] = "responded"
        /\ Len(ops[r]) >= 3
        /\ ops[r][Len(ops[r])].op = "upload"
        /\ ops[r][Len(ops[r])].result # ""

\* C2: an endpoint that fails transiently k times and then succeeds gets
\* k+1 calls and outline generation ends with the successful reply (the
\* delays 1, 2, 4, ... between the calls staying inside the budget of 300).
C2_RetryUntilSuccess ==
    \A r \in Reqs :
        (pc[r] \notin {"idle", "gen_wait"} /\ endpoint[r].then = "ok") =>
            /\ got[r].kind = "reply"
            /\ calls[r] = endpoint[r].faults + 1

\* C3: the generation call of auto_ppt never waits without a bound (it
\* carries an explicit timeout), and against an endpoint that always fails
\* transiently the request fails only once the elapsed time has passed the
\* budget of 300 seconds.
C3_BoundedGeneration ==
    \A r \in Reqs :
        /\ pc[r] = "gen_wait" => (timeout[r] # {} /\ now <= Deadline(r))
        /\ (pc[r] = "failed" /\ endpoint[r].then = "transient") =>
              now - callStart[r] > 300 * TicksPerSec

\* C4: a reply whose text is not JSON ends outline generation at once with a
\* fatal error: one generation call, no retry, nothing assembled or returned.
C4_ParseFailureIsFatal ==
    \A r \in Reqs :
        (got[r].kind = "reply" /\ got[r].content.kind = "text") =>
            /\ pc[r] = "failed"
            /\ exc[r] = "JSONDecodeError"
            /\ calls[r] = 1
            /\ prs[r] = <<>>
            /\ resp[r].status_code = 0

C4_Witness ==
    \E r \in Reqs :
        /\ got[r].kind = "reply"
        /\ got[r].content.kind = "text"
        /\ pc[r] = "failed"

WellFormed(items) ==
    \A i \in 1..Len(items) : HasKey(items[i], "title") /\ HasKey(items[i], "bullets")

\* C5: for an outline of N >= 1 well-formed entries the assembled deck has N
\* slides, slide 0 the cover with the first title, and every later slide its
\* entry's title and exactly one paragraph per bullet, in order, nothing else.
C5_OneParagraphPerBullet ==
    \A r \in Reqs :
        (pc[r] \in PostAssembly /\ WellFormed(slides[r].items)) =>
            LET items == slides[r].items
            IN  /\ Len(prs[r]) = Len(items)
                /\ prs[r][1].layout = 0
                /\ prs[r][1].title = items[1].title
                /\ \A i \in 2..Len(items) :
                      /\ prs[r][i].title = items[i].title
                      /\ Texts(prs[r][i].body) = items[i].bullets

\* The deck holds every entry of the outline: the titles, and each content
\* slide's bullets as its last paragraphs, in order.
FullyAssembled(deck, items) ==
    /\ Len(deck) = Len(items)
    /\ Len(items) >= 1
    /\ \A i \in 1..Len(items) :
          /\ HasKey(items[i], "title")
          /\ deck[i].title = items[i].title
          /\ i >= 2 =>
                /\ HasKey(items[i], "bullets")
                /\ Len(deck[i].body) >= Len(items[i].bullets)
                /\ LET t == Texts(deck[i].body)
                       n == Len(items[i].bullets)
                   IN  SubSeq(t, Len(t) - n + 1, Len(t)) = items[i].bullets

\* C6: a request ends with a 200 response carrying the fully assembled deck
\* or with a propagated failure; a failed request returned nothing, made no
\* storage call and wrote no blob; a blob is there only for a request that
\* goes on to return the document.
C6_AllOrNothing ==
    \A r \in Reqs :
        /\ resp[r].status_code # 0 =>
              /\ pc[r] = "responded"
              /\ exc[r] = ""
              /\ resp[r].status_code = 200
              /\ buf[r].set
              /\ resp[r].body = buf[r]
              /\ slides[r].kind = "array"
              /\ FullyAssembled(resp[r].body.pptx, slides[r].items)
        /\ pc[r] = "failed" =>
              /\ exc[r] # ""
              /\ resp[r].status_code = 0
              /\ ops[r] = <<>>
              /\ ~buf[r].set
              /\ ~WroteBlob(r)
        /\ WroteBlob(r) =>
              /\ pc[r] \in {"respond", "responded"}
              /\ \A p \in DOMAIN store : store[p].by = r => store[p].data = buf[r]

C6_Witness ==
    \E r \in Reqs :
        /\ pc[r] = "failed"
        /\ exc[r] = "KeyError"
        /\ Len(prs[r]) >= 2

LacksTitle(items) == \E i \in 1..Len(items) : ~HasKey(items[i], "title")

LacksBullets(items, from) == \E i \in from..Len(items) : ~HasKey(items[i], "bullets")

NothingOut(r) ==
    /\ pc[r] \notin PostAssembly
    /\ resp[r].status_code = 0
    /\ ops[r] = <<>>
    /\ ~WroteBlob(r)

\* C8 as stated: an outline with any entry, the cover included, that lacks
\* its title or its bullets makes assembly fail; no document is returned or
\* uploaded.
C8_AnyMissingFieldIsFatal ==
    \A r \in Reqs :
        (slides[r].kind = "array"
           /\ (LacksTitle(slides[r].items) \/ LacksBullets(slides[r].items, 1))) =>
            /\ resp[r].status_code = 0
            /\ ~WroteBlob(r)

\* C8 as amended: an outline with an entry that lacks its title, or an entry
\* after the first that lacks its bullets, makes assembly fail; no document
\* is returned or uploaded.  (The bullets of the cover entry are never read.)
C8_MissingFieldIsFatal ==
    \A r \in Reqs :
        (slides[r].kind = "array"
           /\ (LacksTitle(slides[r].items) \/ LacksBullets(slides[r].items, 2))) =>
            /\ NothingOut(r)
            /\ ~(pc[r] = "loop" /\ idx[r] > Len(slides[r].items))

C8_Witness ==
    \E r \in Reqs :
        /\ pc[r] = "failed"
        /\ exc[r] = "KeyError"
        /\ slides[r].kind = "array"
        /\ ~LacksTitle(slides[r].items)
        /\ LacksBullets(slides[r].items, 2)

OpNames(log) == [i \in 1..Len(log) |-> log[i].op]

IsPrefix(a, b) == Len(a) <= Len(b) /\ a = SubSeq(b, 1, Len(a))

\* C9: storage calls are made only once the deck is serialized, in the order
\* existence check, container creation only when the check said absent, then
\* one upload with overwrite to generated/<file_name>; the success text exists
\* only after that upload returned; the blob path carries the file name of
\* the Content-Disposition header.
C9_PublisherOrder ==
    \A r \in Reqs :
        LET log == ops[r]
            n == Len(log)
            fname == file_name(ts[r].stamp)
        IN  /\ n >= 1 => (buf[r].set /\ buf[r].pptx = prs[r]
                           /\ Len(prs[r]) = Len(slides[r].items))
            /\ \/ IsPrefix(OpNames(log), <<"client", "exists", "upload">>)
               \/ IsPrefix(OpNames(log), <<"client", "exists", "create", "upload">>)
            /\ \A i \in 1..(n - 1) : log[i].result = ""
            /\ n >= 3 => (log[3].op = "create" <=> ~log[2].exists)
            /\ \A i \in 1..n :
                  log[i].op = "upload" =>
                      /\ log[i].name = <<"generated/", fname>>
                      /\ log[i].overwrite
                      /\ log[i].data = buf[r]
            /\ (upload_status[r] # <<>> /\ upload_status[r][1] = "Uploaded to Blob Storage: ") =>
                  /\ log[n].op = "upload"
                  /\ log[n].result = ""
                  /\ <<"generated/", fname>> \in DOMAIN store
            /\ pc[r] = "responded" =>
                  /\ resp[r].headers.ContentDisposition = fname
                  /\ resp[r].headers.XUploadStatus = upload_status[r]

C9_Witness ==
    \E r \in Reqs :
        /\ pc[r] = "responded"
        /\ OpNames(ops[r]) = <<"client", "exists", "create", "upload">>
        /\ ops[r][4].result = ""

Spaces(n) == [i \in 1..n |-> " "]

\* `answer` is `text` without its leading and trailing whitespace.
IsTrimOf(answer, text) ==
    /\ answer = <<>> \/ (answer[1] # " " /\ answer[Len(answer)] # " ")
    /\ \E i, j \in 0..Len(text) : text = Spaces(i) \o answer \o Spaces(j)

\* C7: ping never lets a failure out: whatever the call does, the request
\* ends with a JSON response, 200 {status: success, answer: the trimmed
\* reply} exactly when the call returned and its content could be trimmed,
\* and 500 {status: error, detail, trace} otherwise.
C7_PingAlwaysAnswers ==
    \A r \in Reqs :
        /\ pc[r] # "failed"
        /\ exc[r] = ""
        /\ got[r].kind # "none" => pc[r] = "responded"
        /\ pc[r] = "responded" =>
              /\ resp[r].mimetype = JsonMime
              /\ IF got[r].kind = "reply" /\ got[r].content.kind = "str"
                 THEN /\ resp[r].status_code = 200
                      /\ DOMAIN resp[r].body = {"status", "answer"}
                      /\ resp[r].body.status = "success"
                      /\ IsTrimOf(resp[r].body.answer, got[r].content.text)
                 ELSE /\ resp[r].status_code = 500
                      /\ DOMAIN resp[r].body = {"status", "detail", "trace"}
                      /\ resp[r].body.status = "error"
                      /\ resp[r].body.detail =
                            (IF got[r].kind = "raise" THEN got[r].exc ELSE "AttributeError")

C7_Witness ==
    \E r \in Reqs :
        /\ pc[r] = "responded"
        /\ got[r].kind = "reply"
        /\ got[r].content.kind = "none"
        /\ resp[r].status_code = 500

Stamped(r) == ts[r].set

SameSecond(r1, r2) == ts[r1].clock \div TicksPerSec = ts[r2].clock \div TicksPerSec

PathOf(r) == blob_path(file_name(ts[r].stamp))

ReportsUploaded(r) ==
    upload_status[r] # <<>> /\ upload_status[r][1] = "Uploaded to Blob Storage: "

\* C10: two requests stamped in different seconds use different blob paths
\* and two stamped in the same second use the same one; a blob holds the
\* bytes of the request that uploaded to its path last, so a request that
\* reports "Uploaded" finds at its path its own bytes or those of a request
\* of the same second.
C10_SameSecondSamePath ==
    /\ \A r1, r2 \in Reqs :
          (Stamped(r1) /\ Stamped(r2)) => (SameSecond(r1, r2) <=> PathOf(r1) = PathOf(r2))
    /\ \A p \in DOMAIN store :
          /\ p = PathOf(store[p].by)
          /\ store[p].data = buf[store[p].by]
          /\ ReportsUploaded(store[p].by)
    /\ \A r \in Reqs :
          ReportsUploaded(r) =>
              /\ PathOf(r) \in DOMAIN store
              /\ SameSecond(r, store[PathOf(r)].by)

\* A request reports "Uploaded" for a path that holds the other request's bytes.
C10_Witness ==
    \E r1, r2 \in Reqs :
        /\ r1 # r2
        /\ pc[r1] = "responded"
        /\ ReportsUploaded(r1)
        /\ ts[r1].clock # ts[r2].clock
        /\ store[PathOf(r1)].by = r2
        /\ store[PathOf(r1)].data # resp[r1].body

====
